---- MODULE Spec2Model ----
(***************************************************************************)
(* Antiderivative anti-aliasing (ADAA) processors of sim/writeup.py:       *)
(* ADAA_1.process and ADAA_2.process over the hard clipper hardClip with   *)
(* its antiderivatives hardClipAD1 and hardClipAD2.                        *)
(*                                                                         *)
(* Samples are numpy float64 values.  They are modelled as exact rationals *)
(* <<num, den>> in lowest terms with den > 0; the non-finite results of a  *)
(* float64 division by zero are <<1, 0>> (inf), <<-1, 0>> (-inf) and       *)
(* <<0, 0>> (nan).  The sample values used are dyadic, so that the float64 *)
(* sums, differences and comparisons of the code are decided as here.      *)
(***************************************************************************)
EXTENDS Integers, Sequences, FiniteSets

\* ------------------------------------------------------------------------
\* float64 arithmetic, as exact rationals with inf and nan
\* ------------------------------------------------------------------------
AbsI(i) == IF i < 0 THEN -i ELSE i

SgnI(i) == IF i > 0 THEN 1 ELSE IF i < 0 THEN -1 ELSE 0

RECURSIVE Gcd(_, _)
Gcd(a, b) == IF b = 0 THEN a ELSE Gcd(b, a % b)

\* the rational n/d, d # 0, in lowest terms with a positive denominator
Norm(n, d) ==
    LET g == Gcd(AbsI(n), AbsI(d))
    IN  <<SgnI(d) * (n \div g), AbsI(d) \div g>>

Zero == <<0, 1>>

Two == <<2, 1>>

NaN == <<0, 0>>

IsFinite(a) == a[2] # 0

IsNaN(a) == a = NaN

\* a + b
RAdd(a, b) ==
    IF IsFinite(a) /\ IsFinite(b)
    THEN LET g == Gcd(a[2], b[2])
             l == (a[2] \div g) * b[2]
         IN  Norm(a[1] * (l \div a[2]) + b[1] * (l \div b[2]), l)
    ELSE IF IsNaN(a) \/ IsNaN(b) THEN NaN
    ELSE IF ~IsFinite(a) /\ ~IsFinite(b) /\ a # b THEN NaN
    ELSE IF IsFinite(a) THEN b ELSE a

\* -a
RNeg(a) == <<-a[1], a[2]>>

\* a - b
RSub(a, b) == RAdd(a, RNeg(b))

\* a * b
RMul(a, b) ==
    IF IsFinite(a) /\ IsFinite(b)
    THEN LET g1 == Gcd(AbsI(a[1]), b[2])
             g2 == Gcd(AbsI(b[1]), a[2])
         IN  IF a[1] = 0 \/ b[1] = 0 THEN Zero
             ELSE <<(a[1] \div g1) * (b[1] \div g2), (a[2] \div g2) * (b[2] \div g1)>>
    ELSE <<SgnI(a[1]) * SgnI(b[1]), 0>>

\* a / b for numpy float64 operands: x / 0 is inf or -inf, 0 / 0 is nan,
\* a quotient with a nan operand is nan, x / inf is 0 and inf / inf is nan
RDiv(a, b) ==
    IF IsNaN(a) \/ IsNaN(b) THEN NaN
    ELSE IF IsFinite(a) /\ IsFinite(b)
    THEN IF b[1] = 0 THEN <<SgnI(a[1]), 0>>
         ELSE RMul(a, Norm(b[2], b[1]))
    ELSE IF IsFinite(b) THEN <<a[1] * (IF b[1] < 0 THEN -1 ELSE 1), 0>>
    ELSE IF IsFinite(a) THEN Zero ELSE NaN

\* np.abs(a)
RAbs(a) == <<AbsI(a[1]), a[2]>>

\* a < b on finite values (a comparison with nan is False)
RLt(a, b) ==
    IF IsFinite(a) /\ IsFinite(b) THEN a[1] * b[2] < b[1] * a[2]
    ELSE IF IsNaN(a) \/ IsNaN(b) THEN FALSE
    ELSE IF IsFinite(a) THEN b[1] > 0
    ELSE IF IsFinite(b) THEN a[1] < 0
    ELSE a[1] < b[1]

One == <<1, 1>>

Half == <<1, 2>>


\* ------------------------------------------------------------------------
\* the hard clipper and its antiderivatives
\* ------------------------------------------------------------------------
\* int(0 < x) - int(x < 0)
signum(x) == <<(IF RLt(Zero, x) THEN 1 ELSE 0) - (IF RLt(x, Zero) THEN 1 ELSE 0), 1>>

\* x if np.abs(x) < 1 else signum(x)
hardClip(x) == IF RLt(RAbs(x), One) THEN x ELSE signum(x)

\* hardClipAD1 with the constant of its outer piece left out
hardClipAD1_noOffset(x) ==
    IF RLt(RAbs(x), One) THEN RDiv(RMul(x, x), Two)
    ELSE RMul(x, signum(x))

\* x * x / 2.0 if np.abs(x) < 1 else x * signum(x) - 0.5
hardClipAD1(x) ==
    IF RLt(RAbs(x), One) THEN RDiv(RMul(x, x), Two)
    ELSE RSub(RMul(x, signum(x)), Half)

\* x*x*x / 6.0 if np.abs(x) < 1 else ((x*x / 2.0) + (1.0 / 6.0)) * signum(x) - (x/2)
hardClipAD2(x) ==
    IF RLt(RAbs(x), One) THEN RDiv(RMul(RMul(x, x), x), <<6, 1>>)
    ELSE RSub(RMul(RAdd(RDiv(RMul(x, x), Two), RDiv(One, <<6, 1>>)), signum(x)), RDiv(x, Two))

\* ------------------------------------------------------------------------
\* the processors hardClip_ADAA and hardClip_ADAA2
\* ------------------------------------------------------------------------
\* self.f, self.F1, self.F2 of the processors built from the hard clipper
f(x) == hardClip(x)

F1(x) == hardClipAD1(x)

F2(x) == hardClipAD2(x)

\* the default tolerance TOL=1.0e-5, and a dyadic tolerance passed as TOL
DefaultTOL == <<1, 100000>>

CoarseTOL == <<1, 4>>

Tolerances == {DefaultTOL, CoarseTOL}

\* ADAA_1(f, F1, TOL) and ADAA_2(f, F1, F2, TOL)
Instances == [order : {1, 2}, TOL : Tolerances]

\* the test with <= for <
ADAA1_illCond_le(TOL, xn, x1) == ~RLt(TOL, RAbs(RSub(xn, x1)))

\* ADAA_1.process: the test of the loop body
ADAA1_illCond(TOL, xn, x1) == RLt(RAbs(RSub(xn, x1)), TOL)

\* the fallback evaluated at x[n] + x1, the halving left out
ADAA1_out_noHalf(TOL, xn, x1) ==
    IF RLt(RAbs(RSub(xn, x1)), TOL)
    THEN hardClip(RAdd(xn, x1))
    ELSE RDiv(RSub(hardClipAD1(xn), hardClipAD1(x1)), RSub(xn, x1))

\* ADAA_1.process: the value stored in y[n]
ADAA1_out(TOL, xn, x1) ==
    IF ADAA1_illCond(TOL, xn, x1)
    THEN f(RDiv(RAdd(xn, x1), Two))
    ELSE RDiv(RSub(F1(xn), F1(x1)), RSub(xn, x1))

\* ADAA_1.process: the divisors of the divisions one loop body executes
ADAA1_divs(TOL, xn, x1) ==
    IF ADAA1_illCond(TOL, xn, x1) THEN {Two} ELSE {RSub(xn, x1)}

\* calcD with its fallback evaluated at x0 instead of the midpoint
calcD_atSample(TOL, x0, x1) ==
    IF RLt(RAbs(RSub(x0, x1)), TOL)
    THEN hardClipAD1(x0)
    ELSE RDiv(RSub(hardClipAD2(x0), hardClipAD2(x1)), RSub(x0, x1))

\* ADAA_2.process.calcD
calcD(TOL, x0, x1) ==
    IF RLt(RAbs(RSub(x0, x1)), TOL)
    THEN F1(RDiv(RAdd(x0, x1), Two))
    ELSE RDiv(RSub(F2(x0), F2(x1)), RSub(x0, x1))

calcD_divs(TOL, x0, x1) ==
    IF RLt(RAbs(RSub(x0, x1)), TOL) THEN {Two} ELSE {RSub(x0, x1)}

\* fallback with its direct evaluation at x_bar instead of (x_bar + x0) / 2
fallback_atBar(TOL, x0, x2) ==
    LET x_bar == RDiv(RAdd(x0, x2), Two)
        delta == RSub(x_bar, x0)
    IN  IF RLt(delta, TOL)
        THEN hardClip(x_bar)
        ELSE RMul(RDiv(Two, delta),
                  RAdd(hardClipAD1(x_bar),
                       RDiv(RSub(hardClipAD2(x0), hardClipAD2(x_bar)), delta)))

\* ADAA_2.process.fallback
fallback(TOL, x0, x2) ==
    LET x_bar == RDiv(RAdd(x0, x2), Two)
        delta == RSub(x_bar, x0)
    IN  IF RLt(delta, TOL)
        THEN f(RDiv(RAdd(x_bar, x0), Two))
        ELSE RMul(RDiv(Two, delta),
                  RAdd(F1(x_bar), RDiv(RSub(F2(x0), F2(x_bar)), delta)))

fallback_divs(TOL, x0, x2) ==
    LET x_bar == RDiv(RAdd(x0, x2), Two)
        delta == RSub(x_bar, x0)
    IN  IF RLt(delta, TOL) THEN {Two} ELSE {Two, delta}

\* ADAA_2.process: the test of the loop body
ADAA2_illCond(TOL, xn, x1) == RLt(RAbs(RSub(xn, x1)), TOL)

\* ADAA_2.process: the value stored in y[n]
ADAA2_out(TOL, xn, x1, x2) ==
    IF ADAA2_illCond(TOL, xn, x1)
    THEN fallback(TOL, xn, x2)
    ELSE RMul(RDiv(Two, RSub(xn, x2)),
              RSub(calcD(TOL, xn, x1), calcD(TOL, x1, x2)))

\* ADAA_2.process: the divisors of the divisions one loop body executes
ADAA2_divs(TOL, xn, x1, x2) ==
    IF ADAA2_illCond(TOL, xn, x1)
    THEN fallback_divs(TOL, xn, x2)
    ELSE {RSub(xn, x2)} \cup calcD_divs(TOL, xn, x1) \cup calcD_divs(TOL, x1, x2)

\* ------------------------------------------------------------------------
\* state: the processor instances and, per instance, the frame of process()
\* ------------------------------------------------------------------------
Runs == {1, 2}

VARIABLES
    inst,    \* inst[r]: the processor instance, its class (order) and self.TOL
    pc,      \* pc[r]: "idle", or the next statement of process(): "loop", "shift2", "shift1"
    x,       \* x[r]: the argument array of the call in progress
    y,       \* y[r]: the result array of the call in progress
    n,       \* n[r]: the loop index, counted from 1
    x1,      \* x1[r]: the local x1
    x2,      \* x2[r]: the local x2 (ADAA_2 only)
    branch,  \* branch[r][k]: the branch the loop body took at index k of this call
    divs,    \* divs[r]: the divisors of the divisions of the latest loop body
    hist     \* hist[r]: the calls returned so far, as records [x, y, branch]

vars == <<inst, pc, x, y, n, x1, x2, branch, divs, hist>>

\* sample values fed to a processor
Samples == {<<-9, 8>>, <<-7, 8>>, Zero, <<1, 8>>, Two}

\* sample values of the two interleaved runs
ParSamples == {Zero, Two}

\* the samples fed to one instance, over all its calls
MaxLen == 3

\* the samples fed to each of two interleaved instances
ParLen == 2

\* the arrays of k samples drawn from S
Arrays(S, k) == [1..k -> S]

RECURSIVE Fed(_)
Fed(h) == IF h = <<>> THEN 0 ELSE Len(h[1].x) + Fed(Tail(h))

InitFrame ==
    /\ pc = [r \in Runs |-> "idle"]
    /\ x = [r \in Runs |-> <<>>]
    /\ y = [r \in Runs |-> <<>>]
    /\ n = [r \in Runs |-> 1]
    /\ x1 = [r \in Runs |-> Zero]
    /\ x2 = [r \in Runs |-> Zero]
    /\ branch = [r \in Runs |-> <<>>]
    /\ divs = [r \in Runs |-> {}]
    /\ hist = [r \in Runs |-> <<>>]

Init ==
    /\ inst \in [Runs -> Instances]
    /\ inst[2] = inst[1]
    /\ InitFrame

\* hardClip_ADAA and hardClip_ADAA2, in either slot
InitPar ==
    /\ inst \in [Runs -> {i \in Instances : i.TOL = DefaultTOL}]
    /\ InitFrame

\* process(x) is entered: y = np.copy(x); x1 = 0.0 (and x2 = 0.0)
Call(r, xs) ==
    /\ pc[r] = "idle"
    /\ x' = [x EXCEPT ![r] = xs]
    /\ y' = [y EXCEPT ![r] = xs]
    /\ x1' = [x1 EXCEPT ![r] = Zero]
    /\ x2' = [x2 EXCEPT ![r] = Zero]
    /\ n' = [n EXCEPT ![r] = 1]
    /\ branch' = [branch EXCEPT ![r] = <<>>]
    /\ divs' = [divs EXCEPT ![r] = {}]
    /\ pc' = [pc EXCEPT ![r] = "loop"]
    /\ UNCHANGED <<inst, hist>>

\* ADAA_1.process, the if/else of the loop body: y[n] is stored
Compute1(r) ==
    /\ pc[r] = "loop"
    /\ inst[r].order = 1
    /\ n[r] <= Len(x[r])
    /\ y' = [y EXCEPT ![r][n[r]] = ADAA1_out(inst[r].TOL, x[r][n[r]], x1[r])]
    /\ divs' = [divs EXCEPT ![r] = ADAA1_divs(inst[r].TOL, x[r][n[r]], x1[r])]
    /\ branch' = [branch EXCEPT ![r] = Append(@,
            IF ADAA1_illCond(inst[r].TOL, x[r][n[r]], x1[r]) THEN "fallback" ELSE "quotient")]
    /\ pc' = [pc EXCEPT ![r] = "shift1"]
    /\ UNCHANGED <<inst, x, n, x1, x2, hist>>

\* ADAA_2.process, the if/else of the loop body: y[n] is stored
Compute2(r) ==
    /\ pc[r] = "loop"
    /\ inst[r].order = 2
    /\ n[r] <= Len(x[r])
    /\ y' = [y EXCEPT ![r][n[r]] = ADAA2_out(inst[r].TOL, x[r][n[r]], x1[r], x2[r])]
    /\ divs' = [divs EXCEPT ![r] = ADAA2_divs(inst[r].TOL, x[r][n[r]], x1[r], x2[r])]
    /\ branch' = [branch EXCEPT ![r] = Append(@,
            IF ADAA2_illCond(inst[r].TOL, x[r][n[r]], x1[r]) THEN "fallback" ELSE "quotient")]
    /\ pc' = [pc EXCEPT ![r] = "shift2"]
    /\ UNCHANGED <<inst, x, n, x1, x2, hist>>

\* the two shifts in the other order: x2 takes the new x1
Shift2_late(r) ==
    /\ pc[r] = "shift2"
    /\ x2' = [x2 EXCEPT ![r] = x[r][n[r]]]
    /\ pc' = [pc EXCEPT ![r] = "shift1"]
    /\ UNCHANGED <<inst, x, y, n, x1, branch, divs, hist>>

\* ADAA_2.process: x2 = x1
Shift2(r) ==
    /\ pc[r] = "shift2"
    /\ x2' = [x2 EXCEPT ![r] = x1[r]]
    /\ pc' = [pc EXCEPT ![r] = "shift1"]
    /\ UNCHANGED <<inst, x, y, n, x1, branch, divs, hist>>

\* x1 as one variable shared by every run
Shift1_shared(r) ==
    /\ pc[r] = "shift1"
    /\ x1' = [q \in Runs |-> x[r][n[r]]]
    /\ n' = [n EXCEPT ![r] = @ + 1]
    /\ pc' = [pc EXCEPT ![r] = "loop"]
    /\ UNCHANGED <<inst, x, y, x2, branch, divs, hist>>

\* x1 = x[n], and the loop goes on to the next index
Shift1(r) ==
    /\ pc[r] = "shift1"
    /\ x1' = [x1 EXCEPT ![r] = x[r][n[r]]]
    /\ n' = [n EXCEPT ![r] = @ + 1]
    /\ pc' = [pc EXCEPT ![r] = "loop"]
    /\ UNCHANGED <<inst, x, y, x2, branch, divs, hist>>

\* return y
Return(r) ==
    /\ pc[r] = "loop"
    /\ n[r] > Len(x[r])
    /\ hist' = [hist EXCEPT ![r] = Append(@, [x |-> x[r], y |-> y[r], branch |-> branch[r]])]
    /\ pc' = [pc EXCEPT ![r] = "idle"]
    /\ UNCHANGED <<inst, x, y, n, x1, x2, branch, divs>>

\* one instance, called any number of times with MaxLen samples in all
Next ==
    \/ \E k \in 1..(MaxLen - Fed(hist[1])) :
          \E xs \in Arrays(Samples, k) : Call(1, xs)
    \/ Compute1(1)
    \/ Compute2(1)
    \/ Shift2(1)
    \/ Shift1(1)
    \/ Return(1)

Spec == Init /\ [][Next]_vars

\* two instances whose calls are interleaved statement by statement
NextPar ==
    \E r \in Runs :
        \/ \E k \in 1..(ParLen - Fed(hist[r])) :
              \E xs \in Arrays(ParSamples, k) : Call(r, xs)
        \/ Compute1(r)
        \/ Compute2(r)
        \/ Shift2(r)
        \/ Shift1(r)
        \/ Return(r)

SpecPar == InitPar /\ [][NextPar]_vars

\* ------------------------------------------------------------------------
\* what the claims speak of
\* ------------------------------------------------------------------------
\* x[k-j], with 0 standing for the samples before the start of the array
Prev(xs, k, j) == IF k - j >= 1 THEN xs[k - j] ELSE Zero

\* the number of outputs the call in progress of r has stored
Computed(r) == Len(branch[r])

\* |a - b| < TOL
Near(TOL, a, b) == RLt(RAbs(RSub(a, b)), TOL)

\* the first-order output the specification gives for index k of xs
Stated1(TOL, xs, k) ==
    LET a == xs[k]
        b == Prev(xs, k, 1)
    IN  IF Near(TOL, a, b)
        THEN f(RDiv(RAdd(a, b), Two))
        ELSE RDiv(RSub(F1(a), F1(b)), RSub(a, b))

\* calcD as the specification states it
StatedCalcD(TOL, a, b) ==
    IF Near(TOL, a, b)
    THEN F1(RDiv(RAdd(a, b), Two))
    ELSE RDiv(RSub(F2(a), F2(b)), RSub(a, b))

\* the second-order output the specification gives for index k of xs
Stated2(TOL, xs, k) ==
    LET a == xs[k]
        b == Prev(xs, k, 1)
        c == Prev(xs, k, 2)
    IN  IF Near(TOL, a, b)
        THEN fallback(TOL, a, c)
        ELSE RMul(RDiv(Two, RSub(a, c)),
                  RSub(StatedCalcD(TOL, a, b), StatedCalcD(TOL, b, c)))

\* the output a block call on xs from zero history is stated to give at index k
Stated(i, xs, k) ==
    IF i.order = 1 THEN Stated1(i.TOL, xs, k) ELSE Stated2(i.TOL, xs, k)

\* C1: every division a loop body executes has a divisor of absolute value at
\* least TOL, and every output stored is a finite number.
C1_DivisorsAtLeastTOL ==
    \A r \in Runs :
        /\ \A d \in divs[r] : ~RLt(RAbs(d), inst[r].TOL)
        /\ \A k \in 1..Computed(r) : IsFinite(y[r][k])

\* C2: ADAA_1.process stores in y[n] the midpoint evaluation when
\* |x[n] - x[n-1]| < TOL and the difference quotient of F1 otherwise, with
\* x[-1] = 0; y has the length of x, and the entries not yet reached are
\* those of the copy of x.
C2_FirstOrderOutput ==
    \A r \in Runs :
        inst[r].order = 1 =>
            /\ Len(y[r]) = Len(x[r])
            /\ \A k \in 1..Len(x[r]) :
                  y[r][k] = IF k <= Computed(r)
                            THEN Stated1(inst[r].TOL, x[r], k)
                            ELSE x[r][k]

\* a first-order call has returned three outputs, having taken both branches
\* at indices that read a fed sample as history
C2_Witness ==
    /\ inst[1].order = 1
    /\ pc[1] = "idle"
    /\ Len(hist[1]) = 1
    /\ Len(hist[1][1].x) = 3
    /\ hist[1][1].branch[2] = "quotient"
    /\ hist[1][1].branch[3] = "fallback"
    /\ hist[1][1].x[1] # Zero

\* C3: ADAA_2.process stores in y[n] fallback(x[n], x[n-2]) when
\* |x[n] - x[n-1]| < TOL and (2 / (x[n] - x[n-2])) * (calcD(x[n], x[n-1]) -
\* calcD(x[n-1], x[n-2])) otherwise, with x[-1] = x[-2] = 0.
C3_SecondOrderOutput ==
    \A r \in Runs :
        inst[r].order = 2 =>
            \A k \in 1..Computed(r) : y[r][k] = Stated2(inst[r].TOL, x[r], k)

\* a second-order call has returned three outputs, the third by the
\* three-tap formula with both calcD branches and a fed history
C3_Witness ==
    /\ inst[1].order = 2
    /\ pc[1] = "idle"
    /\ Len(hist[1]) = 1
    /\ Len(hist[1][1].x) = 3
    /\ hist[1][1].branch[3] = "quotient"
    /\ hist[1][1].branch[2] = "fallback"
    /\ hist[1][1].x[1] # Zero
    /\ IsFinite(hist[1][1].y[3])

\* the samples of one-sample calls, in the order fed
OneByOne(h) == [j \in 1..Len(h) |-> h[j].x[1]]

AllOneSample(h) == \A j \in 1..Len(h) : Len(h[j].x) = 1

\* C4: the outputs of one-sample calls on the same instance, one call per
\* time step, are element by element the outputs of one block call on the
\* same samples: the history is carried from one call to the next.
C4_BlockEqualsSamplewise ==
    \A r \in Runs :
        AllOneSample(hist[r]) =>
            \A j \in 1..Len(hist[r]) :
                hist[r][j].y[1] = Stated(inst[r], OneByOne(hist[r]), j)

IsConstant(xs) == \A k \in 1..Len(xs) : xs[k] = xs[1]

\* C5 as stated: on a constant input c the output is f(c) at every index at
\* which the fallback branch is taken.
C5_ConstantGivesF ==
    \A r \in Runs :
        IsConstant(x[r]) =>
            \A k \in 1..Computed(r) :
                Near(inst[r].TOL, x[r][k], Prev(x[r], k, 1)) => y[r][k] = f(x[r][1])

\* the history samples the loop body reads at index k all equal c
HistoryIs(i, xs, k, c) ==
    /\ Prev(xs, k, 1) = c
    /\ i.order = 2 => Prev(xs, k, 2) = c

\* C5 amended: on a constant input c the output is f(c) at every index at
\* which the fallback branch is taken and the history read holds only c
\* (n >= 1 for ADAA_1, n >= 2 for ADAA_2, every n when c = 0).
C5_ConstantGivesFOnceHistoryFilled ==
    \A r \in Runs :
        IsConstant(x[r]) =>
            \A k \in 1..Computed(r) :
                /\ Near(inst[r].TOL, x[r][k], Prev(x[r], k, 1))
                /\ HistoryIs(inst[r], x[r], k, x[r][1])
                => /\ branch[r][k] = "fallback"
                   /\ y[r][k] = f(x[r][1])

\* the third output of a constant nonzero input has been stored
C5_Witness ==
    /\ IsConstant(x[1])
    /\ Computed(1) = 3
    /\ x[1][1] = <<-7, 8>>
    /\ inst[1].order = 2
    /\ y[1][3] = f(x[1][1])
    /\ y[1][2] # f(x[1][1])

\* every sample of xs is within TOL of the one before it, 0 before the first
SlowlyVarying(TOL, xs) == \A k \in 1..Len(xs) : Near(TOL, xs[k], Prev(xs, k, 1))

\* C6 as stated: on a slowly varying input ADAA_2 gives the value of ADAA_1's
\* fallback branch, f((x[n] + x[n-1]) / 2).
C6_SecondOrderMatchesFirst ==
    \A r \in Runs :
        inst[r].order = 2 /\ SlowlyVarying(inst[r].TOL, x[r]) =>
            \A k \in 1..Computed(r) :
                y[r][k] = f(RDiv(RAdd(x[r][k], Prev(x[r], k, 1)), Two))

\* C6 amended: on a slowly varying input ADAA_2 gives the direct evaluation
\* f((3 x[n] + x[n-2]) / 4), at a point less than TOL / 2 from ADAA_1's
\* midpoint (x[n] + x[n-1]) / 2; the two values are equal when
\* x[n] + x[n-2] = 2 x[n-1].
C6_SecondOrderDirectEvaluation ==
    \A r \in Runs :
        inst[r].order = 2 /\ SlowlyVarying(inst[r].TOL, x[r]) =>
            \A k \in 1..Computed(r) :
                LET a == x[r][k]
                    b == Prev(x[r], k, 1)
                    c == Prev(x[r], k, 2)
                    at2 == RDiv(RAdd(RMul(<<3, 1>>, a), c), <<4, 1>>)
                    at1 == RDiv(RAdd(a, b), Two)
                IN  /\ y[r][k] = f(at2)
                    /\ RLt(RAbs(RSub(at2, at1)), RDiv(inst[r].TOL, Two))
                    /\ RAdd(a, c) = RMul(Two, b) => y[r][k] = f(at1)

\* a slowly varying, non-constant input has been processed by ADAA_2 and its
\* last output is not ADAA_1's midpoint value
C6_Witness ==
    /\ inst[1].order = 2
    /\ SlowlyVarying(inst[1].TOL, x[1])
    /\ Computed(1) = 3
    /\ ~IsConstant(x[1])
    /\ y[1][3] # f(RDiv(RAdd(x[1][3], x[1][2]), Two))

\* C7: hardClip_ADAA (TOL = 1e-5) on [0.0, 2.0, 2.0] takes the difference
\* quotient at the first 2.0 and stores 0.75, then the fallback at the second
\* 2.0 and stores 1.0.
C7_ClosedFormScenario ==
    \A r \in Runs :
        /\ inst[r] = [order |-> 1, TOL |-> DefaultTOL]
        /\ x[r] = <<Zero, Two, Two>>
        => /\ Computed(r) >= 2 => branch[r][2] = "quotient" /\ y[r][2] = <<3, 4>>
           /\ Computed(r) >= 3 => branch[r][3] = "fallback" /\ y[r][3] = One

\* the call of the scenario has stored its three outputs
C7_Witness ==
    /\ inst[1] = [order |-> 1, TOL |-> DefaultTOL]
    /\ x[1] = <<Zero, Two, Two>>
    /\ Computed(1) = 3
    /\ pc[1] = "idle"

\* C8: with the statements of two runs interleaved in any order, every output
\* of each run, stored or returned, is the one its own input gives from zero
\* history, and its history locals hold its own samples.
C8_RunsIndependent ==
    \A r \in Runs :
        /\ \A j \in 1..Len(hist[r]) :
              \A k \in 1..Len(hist[r][j].x) :
                  hist[r][j].y[k] = Stated(inst[r], hist[r][j].x, k)
        /\ \A k \in 1..Computed(r) : y[r][k] = Stated(inst[r], x[r], k)
        /\ pc[r] = "loop" => x1[r] = Prev(x[r], n[r], 1)
        /\ pc[r] = "loop" /\ inst[r].order = 2 => x2[r] = Prev(x[r], n[r], 2)

\* both runs are inside their calls at once, on different inputs, each having
\* stored its second output
C8_Witness ==
    /\ pc[1] = "shift1"
    /\ pc[2] = "shift1"
    /\ Len(x[1]) = 2
    /\ Len(x[2]) = 2
    /\ n[1] = 2
    /\ n[2] = 2
    /\ x[1] # x[2]
    /\ x[1][1] # x[2][1]

\* C9: ADAA_1 uses the difference quotient only when |x[n] - x[n-1]| > TOL,
\* and in every other case, |x[n] - x[n-1]| = TOL included, stores the
\* midpoint evaluation.
C9_QuotientOnlyAboveTOL ==
    \A r \in Runs :
        inst[r].order = 1 =>
            \A k \in 1..Computed(r) :
                LET a == x[r][k]
                    b == Prev(x[r], k, 1)
                IN  IF RLt(inst[r].TOL, RAbs(RSub(a, b)))
                    THEN TRUE
                    ELSE /\ branch[r][k] = "fallback"
                         /\ y[r][k] = f(RDiv(RAdd(a, b), Two))

\* C10: when the output for index n is computed the history is (x[n-1],
\* x[n-2]), 0 before the start; it is left alone until the output is stored,
\* then x2 takes x1, then x1 takes x[n], once per index.
C10_HistoryInvariant ==
    \A r \in Runs :
        /\ pc[r] = "loop" =>
              /\ Computed(r) = n[r] - 1
              /\ x1[r] = Prev(x[r], n[r], 1)
              /\ inst[r].order = 2 => x2[r] = Prev(x[r], n[r], 2)
        /\ pc[r] = "shift2" =>
              /\ Computed(r) = n[r]
              /\ x1[r] = Prev(x[r], n[r], 1)
              /\ x2[r] = Prev(x[r], n[r], 2)
        /\ pc[r] = "shift1" =>
              /\ Computed(r) = n[r]
              /\ x1[r] = Prev(x[r], n[r], 1)
              /\ inst[r].order = 2 => x2[r] = Prev(x[r], n[r], 1)

\* ADAA_2 is about to compute its third output over three distinct samples
C10_Witness ==
    /\ inst[1].order = 2
    /\ pc[1] = "loop"
    /\ n[1] = 3
    /\ Len(x[1]) = 3
    /\ x1[1] = x[1][2]
    /\ x2[1] = x[1][1]
    /\ x[1][1] # x[1][2]
    /\ x[1][2] # x[1][3]
    /\ x[1][1] # Zero

\* C11: fallback(x0, x2) returns the direct evaluation f((xBar + x0) / 2) only
\* when |xBar - x0| = |x2 - x0| / 2 is below TOL, and whenever
\* |x2 - x0| / 2 >= TOL, for either sign of x2 - x0, it returns
\* (2 / delta) * (F1(xBar) + (F2(x0) - F2(xBar)) / delta), delta = xBar - x0.
C11_FallbackDirectOnlyNearConstant ==
    \A r \in Runs :
        inst[r].order = 2 =>
            \A k \in 1..Computed(r) :
                branch[r][k] = "fallback" =>
                    LET x0 == x[r][k]
                        xBar == RDiv(RAdd(x0, Prev(x[r], k, 2)), Two)
                        delta == RSub(xBar, x0)
                    IN  y[r][k] =
                            IF RLt(RAbs(delta), inst[r].TOL)
                            THEN f(RDiv(RAdd(xBar, x0), Two))
                            ELSE RMul(RDiv(Two, delta),
                                      RAdd(F1(xBar),
                                           RDiv(RSub(F2(x0), F2(xBar)), delta)))

====
